---- MODULE Spec2Model ----
(***************************************************************************)
(* Model of src/src/library.py: the ordered BookCollection, the IndexDict  *)
(* (by_isbn / by_author / by_year) and the Library facade that composes    *)
(* them.  Books are frozen dataclasses, so they are values: two books are  *)
(* equal (and hash alike) exactly when all their fields are equal.         *)
(***************************************************************************)
EXTENDS Integers, Sequences, FiniteSets, TLC

\* Longest collection the model builds (adding is disabled beyond it).
MaxLen == 2

(***************************************************************************)
(* Books                                                                   *)
(***************************************************************************)
Isbns == {"1", "2"}

\* (author, year, genre) of the books the model hands to the library: two
\* authors that differ only in letter case, two years, two genres.
Profiles ==
    { [author |-> "Ann", year |-> 2001, genre |-> "Novel"],
      [author |-> "ANN", year |-> 2002, genre |-> "novel"],
      [author |-> "Bob", year |-> 2001, genre |-> "Epic"] }

\* Book(title, author, year, genre, isbn): the title is the same for all.
Book ==
    { [isbn |-> i, author |-> p.author, year |-> p.year, genre |-> p.genre] :
        i \in Isbns, p \in Profiles }

\* str.lower() on the strings the model uses.
lower(s) ==
    CASE s = "Ann"   -> "ann"
      [] s = "ANN"   -> "ann"
      [] s = "Bob"   -> "bob"
      [] s = "Novel" -> "novel"
      [] s = "Epic"  -> "epic"
      [] OTHER       -> s

\* A `Book | str` argument, tagged by isinstance(book_or_isbn, Book).
AsIsbn(i) == [kind |-> "isbn", isbn |-> i, book |-> <<>>]
AsBook(b) == [kind |-> "book", isbn |-> b.isbn, book |-> <<b>>]

\* isbn = book_or_isbn.isbn if isinstance(book_or_isbn, Book) else book_or_isbn
isbn_of(x) == IF x.kind = "book" THEN x.book[1].isbn ELSE x.isbn

(***************************************************************************)
(* dict helpers                                                            *)
(***************************************************************************)
EmptyDict == [k \in {} |-> {}]
DictPut(d, k, v) == [x \in (DOMAIN d) \cup {k} |-> IF x = k THEN v ELSE d[x]]
DictPop(d, k) == [x \in (DOMAIN d) \ {k} |-> d[x]]
\* dict.get(k, ()) / setdefault(k, set()) read side: the bucket or nothing
DictGet(d, k) == IF k \in DOMAIN d THEN d[k] ELSE {}

(***************************************************************************)
(* BookCollection (a list of books)                                        *)
(***************************************************************************)
\* list.pop(idx): 1-based position here
ListPop(bs, idx) == [j \in 1..(Len(bs) - 1) |-> IF j < idx THEN bs[j] ELSE bs[j + 1]]

\* BookCollection.__contains__
collection_contains(bs, x) == \E j \in 1..Len(bs) : bs[j].isbn = isbn_of(x)

\* BookCollection.add
collection_add(bs, book) == Append(bs, book)

\* BookCollection.remove scanning from the end of the list: the last match
collection_remove_last_match(bs, x) ==
    LET hits == {j \in 1..Len(bs) : bs[j].isbn = isbn_of(x)}
    IN  IF hits = {}
        THEN [outcome |-> "KeyError", books |-> bs, value |-> <<>>]
        ELSE LET idx == CHOOSE j \in hits : \A k \in hits : j >= k
             IN  [outcome |-> "ok", books |-> ListPop(bs, idx), value |-> <<bs[idx]>>]

\* BookCollection.remove: first match in list order, KeyError if none
collection_remove(bs, x) ==
    LET hits == {j \in 1..Len(bs) : bs[j].isbn = isbn_of(x)}
    IN  IF hits = {}
        THEN [outcome |-> "KeyError", books |-> bs, value |-> <<>>]
        ELSE LET idx == CHOOSE j \in hits : \A k \in hits : j <= k
             IN  [outcome |-> "ok", books |-> ListPop(bs, idx), value |-> <<bs[idx]>>]

\* BookCollection.pop_random; `draw` is the value rng.randrange(len) returns
collection_pop_random(bs, draw) ==
    IF Len(bs) = 0
    THEN [outcome |-> "IndexError", books |-> bs, value |-> <<>>]
    ELSE [outcome |-> "ok", books |-> ListPop(bs, draw + 1), value |-> <<bs[draw + 1]>>]

(***************************************************************************)
(* BookCollection objects and their lists.  `h` maps a list object to its  *)
(* contents and `rf` maps a name to the list object it refers to: "A" and  *)
(* "B" are the books lists of two collections, "slice" that of the         *)
(* collection A[i:j] returned, "snap" the list A.snapshot() returned and   *)
(* "sum" the books list of A + B.  A list made by list(...), by slicing or *)
(* by [] is a new object, named after the name first bound to it.          *)
(***************************************************************************)
Names == {"A", "B", "slice", "snap", "sum"}
NoHeap == [n \in Names |-> <<>>]
NoRefs == [n \in Names |-> "none"]

\* the contents of the list a name refers to
ListOf(h, rf, n) == h[rf[n]]

\* two runs of one program, each with its own collection ("A", "B") and its
\* own generator built from the same seed: `tape` is the values the seed
\* yields, as far as a run has drawn them, `pos` the number of values each
\* run has drawn, `removed` the books pop_random has returned to each run
NoDraws == [tape |-> <<>>, pos |-> [run \in {"A", "B"} |-> 0],
            removed |-> [run \in {"A", "B"} |-> <<>>]]

\* self.books[i:j] for integers i, j: a new list
PySlice(bs, i, j) ==
    LET norm(k) == IF k < 0 THEN (IF k + Len(bs) < 0 THEN 0 ELSE k + Len(bs))
                   ELSE (IF k > Len(bs) THEN Len(bs) ELSE k)
    IN  SubSeq(bs, norm(i) + 1, norm(j))

\* BookCollection.__getitem__ with a slice: BookCollection(self.books[index]),
\* whose __init__ copies the sliced list once more
collection_getslice(h, rf, i, j) ==
    [heap |-> [h EXCEPT !["slice"] = PySlice(ListOf(h, rf, "A"), i, j)],
     refs |-> [rf EXCEPT !["slice"] = "slice"]]

\* BookCollection.snapshot returning self.books itself
collection_snapshot_no_copy(h, rf) ==
    [heap |-> h, refs |-> [rf EXCEPT !["snap"] = rf["A"]]]

\* BookCollection.snapshot: list(self.books)
collection_snapshot(h, rf) ==
    [heap |-> [h EXCEPT !["snap"] = ListOf(h, rf, "A")],
     refs |-> [rf EXCEPT !["snap"] = "snap"]]

\* the loop of BookCollection.__add__ with a second, unguarded
\* combined.add(book) left after the guarded one
RECURSIVE concat_loop_adds_again(_, _)
concat_loop_adds_again(combined, other) ==
    IF other = <<>> THEN combined
    ELSE concat_loop_adds_again(
             IF collection_contains(combined, AsBook(Head(other)))
             THEN collection_add(combined, Head(other))
             ELSE collection_add(collection_add(combined, Head(other)), Head(other)),
             Tail(other))

\* the loop of BookCollection.__add__: a book of `other` is added unless
\* `combined` (not only self) already holds its ISBN
RECURSIVE concat_loop(_, _)
concat_loop(combined, other) ==
    IF other = <<>> THEN combined
    ELSE concat_loop(IF collection_contains(combined, AsBook(Head(other)))
                     THEN combined
                     ELSE collection_add(combined, Head(other)),
                     Tail(other))

\* BookCollection.__add__ whose combined collection keeps self.books itself
\* (an __init__ that stores the list it is given): the loop fills self's list
collection_concat_no_copy(h, rf, other) ==
    [heap |-> [h EXCEPT ![rf["A"]] = concat_loop(ListOf(h, rf, "A"), ListOf(h, rf, other))],
     refs |-> [rf EXCEPT !["sum"] = rf["A"]]]

\* BookCollection.__add__: combined = BookCollection(self.books) copies the
\* list, the loop fills the copy; `other` names the right operand
collection_concat(h, rf, other) ==
    [heap |-> [h EXCEPT !["sum"] = concat_loop(ListOf(h, rf, "A"), ListOf(h, rf, other))],
     refs |-> [rf EXCEPT !["sum"] = "sum"]]

(***************************************************************************)
(* IndexDict                                                               *)
(***************************************************************************)
\* IndexDict.__init__
EmptyIndex == [by_isbn |-> EmptyDict, by_author |-> EmptyDict, by_year |-> EmptyDict]

\* IndexDict.__contains__
index_contains(ix, x) == isbn_of(x) \in DOMAIN ix.by_isbn

\* IndexDict.add
index_add(ix, book) ==
    [by_isbn   |-> DictPut(ix.by_isbn, book.isbn, book),
     by_author |-> DictPut(ix.by_author, lower(book.author),
                           DictGet(ix.by_author, lower(book.author)) \cup {book}),
     by_year   |-> DictPut(ix.by_year, book.year,
                           DictGet(ix.by_year, book.year) \cup {book})]

\* IndexDict.remove without the `if not authors: ...pop(...)` pruning
bucket_discard_keeps_empty(d, k, book) ==
    IF k \notin DOMAIN d THEN d ELSE DictPut(d, k, d[k] \ {book})

\* the bucket part of IndexDict.remove: discard, then drop an emptied bucket
bucket_discard(d, k, book) ==
    IF k \notin DOMAIN d THEN d
    ELSE IF d[k] \ {book} = {} THEN DictPop(d, k)
    ELSE DictPut(d, k, d[k] \ {book})

\* IndexDict.remove with by_isbn.get(isbn) in place of by_isbn.pop(isbn):
\* the book leaves its buckets but its key stays in by_isbn
index_remove_keeps_key(ix, x) ==
    LET isbn == isbn_of(x)
    IN  IF isbn \notin DOMAIN ix.by_isbn
        THEN [outcome |-> "KeyError", indexes |-> ix, value |-> <<>>]
        ELSE LET book == ix.by_isbn[isbn]
             IN  [outcome |-> "ok",
                  indexes |->
                    [by_isbn   |-> ix.by_isbn,
                     by_author |-> bucket_discard(ix.by_author, lower(book.author), book),
                     by_year   |-> bucket_discard(ix.by_year, book.year, book)],
                  value |-> <<book>>]

\* IndexDict.remove: by_isbn.pop(isbn) raises KeyError before anything changes
index_remove(ix, x) ==
    LET isbn == isbn_of(x)
    IN  IF isbn \notin DOMAIN ix.by_isbn
        THEN [outcome |-> "KeyError", indexes |-> ix, value |-> <<>>]
        ELSE LET book == ix.by_isbn[isbn]
             IN  [outcome |-> "ok",
                  indexes |->
                    [by_isbn   |-> DictPop(ix.by_isbn, isbn),
                     by_author |-> bucket_discard(ix.by_author, lower(book.author), book),
                     by_year   |-> bucket_discard(ix.by_year, book.year, book)],
                  value |-> <<book>>]

\* IndexDict.get_by_author without author.lower()
get_by_author_case_sensitive(ix, author) == DictGet(ix.by_author, author)

\* IndexDict.get_by_author / get_by_year: the books of the bucket (the
\* BookCollection built from a set lists them in no specified order)
get_by_author(ix, author) == DictGet(ix.by_author, lower(author))
get_by_year(ix, year) == DictGet(ix.by_year, year)

\* IndexDict.__getitem__ with a str key: self.by_isbn[key]
index_getitem(ix, isbn) ==
    IF isbn \in DOMAIN ix.by_isbn
    THEN [outcome |-> "ok", value |-> <<ix.by_isbn[isbn]>>]
    ELSE [outcome |-> "KeyError", value |-> <<>>]

\* the loop of IndexDict.rebuild: add every book in sequence order
RECURSIVE add_all(_, _)
add_all(ix, bs) ==
    IF bs = <<>> THEN ix ELSE add_all(index_add(ix, Head(bs)), Tail(bs))

\* IndexDict.rebuild without its self.by_author.clear()
index_clear_keeps_authors(ix) ==
    [by_isbn |-> EmptyDict, by_author |-> ix.by_author, by_year |-> EmptyDict]

\* the three clear() calls of IndexDict.rebuild
index_clear(ix) == EmptyIndex

\* IndexDict.rebuild
index_rebuild(ix, bs) == add_all(index_clear(ix), bs)

(***************************************************************************)
(* State                                                                   *)
(***************************************************************************)
VARIABLES
    books,      \* Library.books.books: the list of the collection
    indexes,    \* Library.indexes: by_isbn, by_author, by_year
    ret,        \* the last call: operation, argument, outcome, result
    heap,       \* stand-alone collections: list object -> contents
    refs,       \* stand-alone collections: name -> list object
    gen         \* two runs with one seed: values drawn, positions, books removed

vars == <<books, indexes, ret, heap, refs, gen>>

\* The record of a call.  `repeat` says that the call before it was the same
\* operation with the same argument and returned normally, so that "the same
\* call twice in a row" is a state.
Ret(op, isbn, arg, outcome, value) ==
    [op |-> op, isbn |-> isbn, arg |-> arg, outcome |-> outcome, value |-> value,
     repeat |-> (ret.op = op /\ ret.isbn = isbn /\ ret.arg = arg /\ ret.outcome = "ok")]

\* Library.__init__ with no books
Init ==
    /\ books = <<>>
    /\ indexes = index_rebuild(EmptyIndex, <<>>)
    /\ ret = [op |-> "init", isbn |-> "", arg |-> <<>>, outcome |-> "ok",
              value |-> <<>>, repeat |-> FALSE]
    /\ heap = NoHeap
    /\ refs = [NoRefs EXCEPT !["A"] = "A", !["B"] = "B"]
    /\ gen = NoDraws

(***************************************************************************)
(* Library                                                                 *)
(***************************************************************************)
\* Library.get_by_isbn
get_by_isbn(ix, isbn) == index_getitem(ix, isbn)

\* Library.find_by_year / find_by_author
find_by_year(ix, year) == get_by_year(ix, year)
find_by_author(ix, author) == get_by_author(ix, author)

\* the generator of Library.find_by_genre with book.genre == genre
RECURSIVE genre_scan_case_sensitive(_, _)
genre_scan_case_sensitive(bs, genre) ==
    IF bs = <<>> THEN <<>>
    ELSE (IF Head(bs).genre = genre THEN <<Head(bs)>> ELSE <<>>)
             \o genre_scan_case_sensitive(Tail(bs), genre)

\* the generator of Library.find_by_genre: the books of the collection, in
\* its order, with book.genre.lower() == genre.lower()
RECURSIVE genre_scan(_, _)
genre_scan(bs, genre) ==
    IF bs = <<>> THEN <<>>
    ELSE (IF lower(Head(bs).genre) = lower(genre) THEN <<Head(bs)>> ELSE <<>>)
             \o genre_scan(Tail(bs), genre)

\* Library.find_by_genre: a BookCollection of the scan's books
find_by_genre(genre) ==
    /\ UNCHANGED <<books, indexes>>
    /\ UNCHANGED <<heap, refs, gen>>
    /\ ret' = Ret("find_by_genre", genre, <<>>, "ok", genre_scan(books, genre))

\* Library.add_book
add_book(book) ==
    /\ Len(books) < MaxLen
    /\ books' = collection_add(books, book)
    /\ indexes' = index_add(indexes, book)
    /\ UNCHANGED <<heap, refs, gen>>
    /\ ret' = Ret("add_book", book.isbn, <<book>>, "ok", <<>>)

\* Library.remove_book: the collection first, then the index; an exception
\* of the second step leaves the first step done
remove_book(isbn) ==
    LET c == collection_remove(books, AsIsbn(isbn))
        i == index_remove(indexes, AsIsbn(isbn))
    IN  IF c.outcome # "ok"
        THEN /\ UNCHANGED <<books, indexes>>
             /\ UNCHANGED <<heap, refs, gen>>
             /\ ret' = Ret("remove_book", isbn, <<>>, c.outcome, <<>>)
        ELSE /\ books' = c.books
             /\ indexes' = i.indexes
             /\ UNCHANGED <<heap, refs, gen>>
             /\ ret' = Ret("remove_book", isbn, <<>>, i.outcome,
                           IF i.outcome = "ok" THEN c.value ELSE <<>>)

\* Library.remove_random
remove_random(draw) ==
    LET c == collection_pop_random(books, draw)
    IN  IF c.outcome # "ok"
        THEN /\ UNCHANGED <<books, indexes>>
             /\ UNCHANGED <<heap, refs, gen>>
             /\ ret' = Ret("remove_random", "", <<>>, c.outcome, <<>>)
        ELSE LET i == index_remove(indexes, AsBook(c.value[1]))
             IN  /\ books' = c.books
                 /\ indexes' = i.indexes
                 /\ UNCHANGED <<heap, refs, gen>>
                 /\ ret' = Ret("remove_random", "", <<>>, i.outcome,
                               IF i.outcome = "ok" THEN c.value ELSE <<>>)

\* Library.refresh_indexes with a rebuild that pops the books off the
\* collection's list while it indexes them
refresh_indexes_draining ==
    /\ indexes' = index_rebuild(indexes, books)
    /\ books' = <<>>
    /\ UNCHANGED <<heap, refs, gen>>
    /\ ret' = Ret("refresh_indexes", "", <<>>, "ok", <<>>)

\* Library.refresh_indexes
refresh_indexes ==
    /\ indexes' = index_rebuild(indexes, books)
    /\ UNCHANGED books
    /\ UNCHANGED <<heap, refs, gen>>
    /\ ret' = Ret("refresh_indexes", "", <<>>, "ok", <<>>)

\* the values rng.randrange(len(books)) can return (0 for the empty list,
\* where pop_random raises before drawing)
Draws == IF Len(books) = 0 THEN {0} ELSE 0..(Len(books) - 1)

Next ==
    \/ \E b \in Book : add_book(b)
    \/ \E i \in Isbns : remove_book(i)
    \/ \E d \in Draws : remove_random(d)
    \/ refresh_indexes

Spec == Init /\ [][Next]_vars

(***************************************************************************)
(* The collection mutated directly, without going through the Library      *)
(* (library.books.add(...), .remove(...), .pop_random(...)): the index is  *)
(* not touched.                                                            *)
(***************************************************************************)
books_add(book) ==
    /\ Len(books) < MaxLen
    /\ books' = collection_add(books, book)
    /\ UNCHANGED indexes
    /\ UNCHANGED <<heap, refs, gen>>
    /\ ret' = Ret("books.add", book.isbn, <<book>>, "ok", <<>>)

books_remove(x) ==
    LET c == collection_remove(books, x)
    IN  /\ books' = c.books
        /\ UNCHANGED indexes
        /\ UNCHANGED <<heap, refs, gen>>
        /\ ret' = Ret("books.remove", isbn_of(x), <<>>, c.outcome, c.value)

books_pop_random(draw) ==
    LET c == collection_pop_random(books, draw)
    IN  /\ books' = c.books
        /\ UNCHANGED indexes
        /\ UNCHANGED <<heap, refs, gen>>
        /\ ret' = Ret("books.pop_random", "", <<>>, c.outcome, c.value)

\* a `Book | str` argument: any ISBN, or any book
Keys == {AsIsbn(i) : i \in Isbns} \cup {AsBook(b) : b \in Book}

NextDirect ==
    \/ Next
    \/ \E b \in Book : books_add(b)
    \/ \E i \in Isbns : books_remove(AsIsbn(i))
    \/ \E d \in Draws : books_pop_random(d)

SpecDirect == Init /\ [][NextDirect]_vars

(***************************************************************************)
(* A BookCollection used on its own                                        *)
(***************************************************************************)
NextCollection ==
    \/ \E b \in Book : books_add(b)
    \/ \E x \in Keys : books_remove(x)
    \/ \E d \in Draws : books_pop_random(d)

SpecCollection == Init /\ [][NextCollection]_vars

(***************************************************************************)
(* find_by_genre on a Library whose index may be stale                     *)
(***************************************************************************)
\* genres looked up: every spelling in use, and one no book has
GenreStrings == {"Novel", "novel", "Epic", "epic", "Saga"}

NextGenre ==
    \/ \E b \in Book : add_book(b)
    \/ \E b \in Book : books_add(b)
    \/ \E i \in Isbns : remove_book(i)
    \/ \E g \in GenreStrings : find_by_genre(g)

SpecGenre == Init /\ [][NextGenre]_vars

(***************************************************************************)
(* An IndexDict used on its own: add, remove, rebuild                      *)
(***************************************************************************)
indexes_add(book) ==
    /\ indexes' = index_add(indexes, book)
    /\ UNCHANGED books
    /\ UNCHANGED <<heap, refs, gen>>
    /\ ret' = Ret("indexes.add", book.isbn, <<book>>, "ok", <<>>)

indexes_remove(x) ==
    LET i == index_remove(indexes, x)
    IN  /\ indexes' = i.indexes
        /\ UNCHANGED books
        /\ UNCHANGED <<heap, refs, gen>>
        /\ ret' = Ret("indexes.remove", isbn_of(x), <<>>, i.outcome, i.value)

indexes_rebuild(bs) ==
    /\ indexes' = index_rebuild(indexes, bs)
    /\ UNCHANGED books
    /\ UNCHANGED <<heap, refs, gen>>
    /\ ret' = Ret("indexes.rebuild", "", <<>>, "ok", <<>>)

\* IndexDict.get_by_author / get_by_year called: dict.get reads and never
\* inserts; the result is recorded as the set of books it lists
indexes_get_by_author(author) ==
    /\ UNCHANGED <<books, indexes>>
    /\ UNCHANGED <<heap, refs, gen>>
    /\ ret' = Ret("indexes.get_by_author", author, <<>>, "ok", get_by_author(indexes, author))

indexes_get_by_year(year) ==
    /\ UNCHANGED <<books, indexes>>
    /\ UNCHANGED <<heap, refs, gen>>
    /\ ret' = Ret("indexes.get_by_year", year, <<>>, "ok", get_by_year(indexes, year))

\* the sequences of books handed to rebuild
BookLists == UNION {[1..n -> Book] : n \in 0..MaxLen}

\* author strings and years looked up: every spelling in use, and one
\* author and one year no book has
AuthorStrings == {"Ann", "ANN", "ann", "Bob", "bob", "Zed"}
YearKeys == {p.year : p \in Profiles} \cup {1999}

NextIndex ==
    \/ \E b \in Book : indexes_add(b)
    \/ \E x \in Keys : indexes_remove(x)
    \/ \E bs \in BookLists : indexes_rebuild(bs)
    \/ \E a \in AuthorStrings : indexes_get_by_author(a)
    \/ \E y \in YearKeys : indexes_get_by_year(y)

SpecIndex == Init /\ [][NextIndex]_vars

(***************************************************************************)
(* Stand-alone collections: A and B are built with add; A is sliced,       *)
(* snapshotted and concatenated; the objects returned are mutated.         *)
(***************************************************************************)
\* the books handed to the stand-alone collections: two books with one
\* ISBN, and a third with another
Shelf == {b \in Book : (b.isbn = "1") = (lower(b.author) = "ann")}

\* a call that replaces the contents of the list `n` refers to
list_call(n, contents, op, isbn, arg, outcome, value) ==
    /\ refs[n] # "none"
    /\ heap' = [heap EXCEPT ![refs[n]] = contents]
    /\ UNCHANGED <<books, indexes, refs, gen>>
    /\ ret' = Ret(op, isbn, arg, outcome, value)

\* A.add(book), B.add(book)
A_add(book) ==
    /\ Len(ListOf(heap, refs, "A")) < MaxLen
    /\ list_call("A", collection_add(ListOf(heap, refs, "A"), book),
                 "A.add", book.isbn, <<book>>, "ok", <<>>)

B_add(book) ==
    /\ Len(ListOf(heap, refs, "B")) < MaxLen
    /\ list_call("B", collection_add(ListOf(heap, refs, "B"), book),
                 "B.add", book.isbn, <<book>>, "ok", <<>>)

\* A.remove(isbn)
A_remove(isbn) ==
    /\ refs["A"] # "none"
    /\ LET c == collection_remove(ListOf(heap, refs, "A"), AsIsbn(isbn))
       IN  list_call("A", c.books, "A.remove", isbn, <<>>, c.outcome, c.value)

\* A[i:j]
A_getslice(i, j) ==
    LET r == collection_getslice(heap, refs, i, j)
    IN  /\ heap' = r.heap
        /\ refs' = r.refs
        /\ UNCHANGED <<books, indexes, gen>>
        /\ ret' = Ret("A.getslice", "", <<>>, "ok", <<>>)

\* A.snapshot()
A_snapshot ==
    LET r == collection_snapshot(heap, refs)
    IN  /\ heap' = r.heap
        /\ refs' = r.refs
        /\ UNCHANGED <<books, indexes, gen>>
        /\ ret' = Ret("A.snapshot", "", <<>>, "ok", <<>>)

\* A + B and A + A; `other` names the right operand
A_concat(other) ==
    LET r == collection_concat(heap, refs, other)
    IN  /\ heap' = r.heap
        /\ refs' = r.refs
        /\ UNCHANGED <<books, indexes, gen>>
        /\ ret' = Ret("A.concat", other, <<>>, "ok", <<>>)

\* add and remove on the collection A[i:j] returned
slice_add(book) ==
    /\ refs["slice"] # "none"
    /\ Len(ListOf(heap, refs, "slice")) < MaxLen
    /\ list_call("slice", collection_add(ListOf(heap, refs, "slice"), book),
                 "slice.add", book.isbn, <<book>>, "ok", <<>>)

slice_remove(isbn) ==
    /\ refs["slice"] # "none"
    /\ LET c == collection_remove(ListOf(heap, refs, "slice"), AsIsbn(isbn))
       IN  list_call("slice", c.books, "slice.remove", isbn, <<>>, c.outcome, c.value)

\* append and pop on the list A.snapshot() returned
snap_append(book) ==
    /\ refs["snap"] # "none"
    /\ Len(ListOf(heap, refs, "snap")) < MaxLen
    /\ list_call("snap", Append(ListOf(heap, refs, "snap"), book),
                 "snap.append", book.isbn, <<book>>, "ok", <<>>)

snap_pop ==
    /\ refs["snap"] # "none"
    /\ Len(ListOf(heap, refs, "snap")) > 0
    /\ list_call("snap", ListPop(ListOf(heap, refs, "snap"), Len(ListOf(heap, refs, "snap"))),
                 "snap.pop", "", <<>>, "ok", <<>>)

\* slice bounds: from before the start to past the end, negative included
SliceBounds == (0 - 1)..(MaxLen + 1)

\* the books the aliasing scenario hands out: one per ISBN
TwoBooks == {b \in Shelf : b.author # "ANN"}

NextAlias ==
    \/ \E b \in TwoBooks : A_add(b)
    \/ \E i \in Isbns : A_remove(i)
    \/ \E i, j \in SliceBounds : A_getslice(i, j)
    \/ A_snapshot
    \/ \E b \in TwoBooks : slice_add(b)
    \/ \E i \in Isbns : slice_remove(i)
    \/ \E b \in TwoBooks : snap_append(b)
    \/ snap_pop

SpecAlias == Init /\ [][NextAlias]_vars

NextConcat ==
    \/ \E b \in Shelf : A_add(b)
    \/ \E b \in Shelf : B_add(b)
    \/ \E o \in {"A", "B"} : A_concat(o)

SpecConcat == Init /\ [][NextConcat]_vars

\* A.add(book); B.add(book): the two runs are given equal collections
\* before either draws
AB_add(book) ==
    /\ gen.tape = <<>>
    /\ Len(ListOf(heap, refs, "A")) < MaxLen
    /\ heap' = [heap EXCEPT ![refs["A"]] = collection_add(ListOf(heap, refs, "A"), book),
                            ![refs["B"]] = collection_add(ListOf(heap, refs, "B"), book)]
    /\ UNCHANGED <<books, indexes, refs, gen>>
    /\ ret' = Ret("AB.add", book.isbn, <<book>>, "ok", <<>>)

\* a draw of run `run`: the value the other run drew at this position if it
\* is further on, else a value the seed yields now, put on the tape
Drawn(run, draw) ==
    gen.pos[run] < Len(gen.tape) => draw = gen.tape[gen.pos[run] + 1]

AfterDraw(run, draw, value) ==
    [tape |-> IF gen.pos[run] < Len(gen.tape) THEN gen.tape ELSE Append(gen.tape, draw),
     pos |-> [gen.pos EXCEPT ![run] = @ + 1],
     removed |-> [gen.removed EXCEPT ![run] = @ \o value]]

\* the name of a run's call
PopOf(run) == IF run = "A" THEN "A.pop_random" ELSE "B.pop_random"

\* pop_random(rng) on the collection of run `run` that draws from rng and
\* then removes the element at an index taken from elsewhere
run_pop_random_ambient(run) ==
    LET bs == ListOf(heap, refs, run)
    IN  /\ bs # <<>>
        /\ \E draw \in 0..(Len(bs) - 1), ambient \in 0..(Len(bs) - 1) :
              LET c == collection_pop_random(bs, ambient)
              IN  /\ Drawn(run, draw)
                  /\ heap' = [heap EXCEPT ![refs[run]] = c.books]
                  /\ gen' = AfterDraw(run, draw, c.value)
                  /\ UNCHANGED <<books, indexes, refs>>
                  /\ ret' = Ret(PopOf(run), "", <<>>, c.outcome, c.value)

\* pop_random(rng) on the collection of run `run` ("A" or "B").  An empty
\* collection raises before the generator is asked; otherwise
\* rng.randrange(len) is the run's next draw
run_pop_random(run) ==
    LET bs == ListOf(heap, refs, run)
    IN  IF bs = <<>>
        THEN /\ UNCHANGED <<books, indexes, heap, refs, gen>>
             /\ ret' = Ret(PopOf(run), "", <<>>, collection_pop_random(bs, 0).outcome, <<>>)
        ELSE \E draw \in 0..(Len(bs) - 1) :
              LET c == collection_pop_random(bs, draw)
              IN  /\ Drawn(run, draw)
                  /\ heap' = [heap EXCEPT ![refs[run]] = c.books]
                  /\ gen' = AfterDraw(run, draw, c.value)
                  /\ UNCHANGED <<books, indexes, refs>>
                  /\ ret' = Ret(PopOf(run), "", <<>>, c.outcome, c.value)

NextRuns ==
    \/ \E b \in Shelf : AB_add(b)
    \/ \E run \in {"A", "B"} : run_pop_random(run)

SpecRuns == Init /\ [][NextRuns]_vars

(***************************************************************************)
(* The simulator's events (run_simulation picks any of them at each step). *)
(* Their printing is not modelled; an exception that leaves an event shows *)
(* as the outcome of the call.                                             *)
(***************************************************************************)
\* add_book_event without its `while candidate.isbn in library.indexes` loop
add_book_event_no_retry(candidate) ==
    /\ Len(books) < MaxLen
    /\ books' = collection_add(books, candidate)
    /\ indexes' = index_add(indexes, candidate)
    /\ UNCHANGED <<heap, refs, gen>>
    /\ ret' = Ret("add_book_event", candidate.isbn, <<candidate>>, "ok", <<>>)

\* add_book_event: `candidate` is the book the retry loop ends with, one
\* whose ISBN the index does not hold; then library.add_book(candidate)
add_book_event(candidate) ==
    /\ ~index_contains(indexes, AsIsbn(candidate.isbn))
    /\ Len(books) < MaxLen
    /\ books' = collection_add(books, candidate)
    /\ indexes' = index_add(indexes, candidate)
    /\ UNCHANGED <<heap, refs, gen>>
    /\ ret' = Ret("add_book_event", candidate.isbn, <<candidate>>, "ok", <<>>)

\* remove_book_event: nothing on an empty library, else library.remove_random
remove_book_event(draw) ==
    IF Len(books) = 0
    THEN /\ UNCHANGED <<books, indexes>>
         /\ UNCHANGED <<heap, refs, gen>>
         /\ ret' = Ret("remove_book_event", "", <<>>, "ok", <<>>)
    ELSE LET c == collection_pop_random(books, draw)
             i == index_remove(indexes, AsBook(c.value[1]))
         IN  /\ books' = c.books
             /\ indexes' = i.indexes
             /\ UNCHANGED <<heap, refs, gen>>
             /\ ret' = Ret("remove_book_event", "", <<>>, i.outcome,
                           IF i.outcome = "ok" THEN c.value ELSE <<>>)

\* search_author_event, search_year_event, search_genre_event: a lookup
\* whose result is printed
search_author_event(author) ==
    /\ UNCHANGED <<books, indexes>>
    /\ UNCHANGED <<heap, refs, gen>>
    /\ ret' = Ret("search_author_event", author, <<>>, "ok", find_by_author(indexes, author))

search_year_event(year) ==
    /\ UNCHANGED <<books, indexes>>
    /\ UNCHANGED <<heap, refs, gen>>
    /\ ret' = Ret("search_year_event", year, <<>>, "ok", find_by_year(indexes, year))

search_genre_event(genre) ==
    /\ UNCHANGED <<books, indexes>>
    /\ UNCHANGED <<heap, refs, gen>>
    /\ ret' = Ret("search_genre_event", genre, <<>>, "ok", genre_scan(books, genre))

\* refresh_index_event: library.refresh_indexes()
refresh_index_event ==
    /\ indexes' = index_rebuild(indexes, books)
    /\ UNCHANGED books
    /\ UNCHANGED <<heap, refs, gen>>
    /\ ret' = Ret("refresh_index_event", "", <<>>, "ok", <<>>)

\* missing_lookup_event: get_by_isbn of a random ISBN inside try/except
\* KeyError; found or not, the event returns normally
missing_lookup_event(fake_isbn) ==
    /\ UNCHANGED <<books, indexes>>
    /\ UNCHANGED <<heap, refs, gen>>
    /\ ret' = Ret("missing_lookup_event", fake_isbn, <<>>, "ok",
                  get_by_isbn(indexes, fake_isbn).value)

\* run_simulation: rng.choice(events) at every step
NextSim ==
    \/ \E b \in Book : add_book_event(b)
    \/ \E d \in Draws : remove_book_event(d)
    \/ \E p \in Profiles : search_author_event(p.author)
    \/ \E y \in YearKeys : search_year_event(y)
    \/ \E p \in Profiles : search_genre_event(p.genre)
    \/ refresh_index_event
    \/ \E i \in Isbns : missing_lookup_event(i)

SpecSim == Init /\ [][NextSim]_vars

(***************************************************************************)
(* Properties                                                              *)
(***************************************************************************)
IsbnsIn(bs) == {bs[j].isbn : j \in 1..Len(bs)}
BooksIn(bs) == {bs[j] : j \in 1..Len(bs)}
Years == {p.year : p \in Profiles}
Buckets(ix) ==
    {ix.by_author[k] : k \in DOMAIN ix.by_author} \cup {ix.by_year[k] : k \in DOMAIN ix.by_year}
\* two different books of the collection carry the same ISBN
RepeatedIsbn(bs) ==
    \E j, k \in 1..Len(bs) : j < k /\ bs[j].isbn = bs[k].isbn /\ bs[j] # bs[k]

\* C1: in every state reached by add_book, remove_book, remove_random and
\* refresh_indexes, the ISBNs occurring in Library.books are exactly the keys
\* of Library.indexes.by_isbn.
C1_SameIsbnSets == IsbnsIn(books) = DOMAIN indexes.by_isbn

\* C2: right after a remove_book(id) that returned normally, no book of the
\* collection has ISBN id, id is no key of by_isbn, and get_by_isbn(id)
\* raises KeyError.
C2_RemovedIsbnGone ==
    (ret.op = "remove_book" /\ ret.outcome = "ok") =>
        /\ ~collection_contains(books, AsIsbn(ret.isbn))
        /\ ret.isbn \notin DOMAIN indexes.by_isbn
        /\ get_by_isbn(indexes, ret.isbn).outcome = "KeyError"

\* C3: right after add_book(b), get_by_isbn(b.isbn) returns b and b occurs
\* exactly once in a scan of Library.books.
C3_AddedBookFoundOnce ==
    ret.op = "add_book" =>
        /\ get_by_isbn(indexes, ret.isbn) = [outcome |-> "ok", value |-> ret.arg]
        /\ Cardinality({j \in 1..Len(books) : books[j] = ret.arg[1]}) = 1

\* C4: in every IndexDict state reached by add, remove and rebuild, every
\* value of by_isbn is in its by_author and by_year bucket, and every book of
\* a bucket is the value by_isbn stores under the book's ISBN.
C4_IndexBidirectional ==
    /\ \A i \in DOMAIN indexes.by_isbn :
          /\ indexes.by_isbn[i] \in get_by_author(indexes, indexes.by_isbn[i].author)
          /\ indexes.by_isbn[i] \in get_by_year(indexes, indexes.by_isbn[i].year)
    /\ \A bucket \in Buckets(indexes) : \A b \in bucket :
          index_getitem(indexes, b.isbn) = [outcome |-> "ok", value |-> <<b>>]

\* C5: a call of add_book, remove_book or remove_random that raises leaves
\* Library.books and Library.indexes exactly as they were before the call.
C5_FailedCallChangesNothing ==
    [][(ret'.op \in {"add_book", "remove_book", "remove_random"} /\ ret'.outcome # "ok")
        => (books' = books /\ indexes' = indexes)]_vars

\* C6: right after refresh_indexes(), whatever the collection holds (repeated
\* ISBNs, contents written by direct mutation) and whatever the index held,
\* the keys of by_isbn are the ISBNs of the collection and every book of a
\* by_author or by_year bucket is in the collection.
C6_RefreshResynchronizes ==
    ret.op = "refresh_indexes" =>
        /\ DOMAIN indexes.by_isbn = IsbnsIn(books)
        /\ \A bucket \in Buckets(indexes) : bucket \subseteq BooksIn(books)

\* C6 witness: refresh_indexes has run on a collection in which two different
\* books carry the same ISBN.
C6_Witness == ret.op = "refresh_indexes" /\ RepeatedIsbn(books)

\* C7: refresh_indexes never changes the collection, and a refresh_indexes
\* that directly follows a refresh_indexes leaves the index as the first left
\* it.
C7_RefreshIdempotent ==
    [][ret'.op = "refresh_indexes" =>
        /\ books' = books
        /\ (ret.op = "refresh_indexes" => indexes' = indexes)]_vars

\* C7 witness: two refresh_indexes calls in a row on a non-empty collection
\* with a repeated ISBN.
C7_Witness == ret.op = "refresh_indexes" /\ ret.repeat /\ RepeatedIsbn(books)

\* C8: a remove_book(id) issued right after a remove_book(id) that succeeded
\* raises KeyError.
C8_SecondRemoveFails ==
    (ret.op = "remove_book" /\ ret.repeat) => ret.outcome = "KeyError"

\* C8 witness: remove_book(id) called twice in a row, the first call having
\* succeeded, while the ISBN was carried by two books of the collection (the
\* second of them is still indexed in its year bucket).
C8_Witness ==
    /\ ret.op = "remove_book" /\ ret.repeat
    /\ \E bucket \in Buckets(indexes) : \E b \in bucket : b.isbn = ret.isbn

\* C9: remove_random on a Library whose collection is empty raises
\* IndexError, and afterwards the collection is empty and all three index
\* mappings are empty.
C9_RemoveRandomOnEmpty ==
    [][(books = <<>> /\ ret'.op = "remove_random") =>
        /\ ret'.outcome = "IndexError"
        /\ books' = <<>>
        /\ indexes' = EmptyIndex]_vars

\* C10: in every state reached by add_book, remove_book, remove_random and
\* refresh_indexes, find_by_year(y) holds exactly the books of Library.books
\* whose year is y, for every year y.
C10_FindByYearExact ==
    \A y \in Years : find_by_year(indexes, y) = {b \in BooksIn(books) : b.year = y}

\* C11: right after add_book(b), find_by_author(s) contains b for every
\* string s whose lowercase form is that of b.author; and in every state two
\* strings with the same lowercase form get the same books from
\* find_by_author.
C11_AuthorLookupIgnoresCase ==
    /\ ret.op = "add_book" =>
          \A s \in AuthorStrings :
              lower(s) = lower(ret.arg[1].author) => ret.arg[1] \in find_by_author(indexes, s)
    /\ \A s, t \in AuthorStrings :
          lower(s) = lower(t) => find_by_author(indexes, s) = find_by_author(indexes, t)

\* C11 witness: a book by "ANN" has just been added and find_by_author("Ann")
\* lists it beside a book by "Ann".
C11_Witness ==
    /\ ret.op = "add_book" /\ ret.arg[1].author = "ANN"
    /\ \E b \in find_by_author(indexes, "Ann") : b.author = "Ann"

\* C12: in every IndexDict state reached by add, remove (succeeding or
\* raising), rebuild, get_by_author and get_by_year, no key of by_author or
\* by_year maps to an empty set.
C12_NoEmptyBucket ==
    /\ \A k \in DOMAIN indexes.by_author : indexes.by_author[k] # {}
    /\ \A k \in DOMAIN indexes.by_year : indexes.by_year[k] # {}

\* C12 witness: a remove has just taken the last book out of its author
\* bucket, and the bucket's key is gone.
C12_Witness ==
    /\ ret.op = "indexes.remove" /\ ret.outcome = "ok"
    /\ lower(ret.value[1].author) \notin DOMAIN indexes.by_author

\* C20: the book a successful remove_book(id) returns is the book
\* get_by_isbn(id) would have returned just before the call.
C20_RemovedIsIndexed ==
    [][(ret'.op = "remove_book" /\ ret'.outcome = "ok") =>
        ret'.value = get_by_isbn(indexes, ret'.isbn).value]_vars

C18_FindByGenreScansCollection ==
    [][ret'.op = "find_by_genre" =>
        LET Match(b) == lower(b.genre) = lower(ret'.isbn)
        IN  /\ ret'.value = SelectSeq(books, Match)
            /\ books' = books
            /\ indexes' = indexes]_vars

\* C18 witness: find_by_genre("novel") has returned a "Novel" book twice
\* from a collection the index does not know (by_isbn is empty).
C18_Witness ==
    /\ ret.op = "find_by_genre" /\ ret.isbn = "novel"
    /\ Len(ret.value) = 2 /\ ret.value[1] = ret.value[2] /\ ret.value[1].genre = "Novel"
    /\ DOMAIN indexes.by_isbn = {}

\* C19: under any sequence of simulator events from an empty Library no
\* event lets an exception escape, the ISBNs in Library.books are pairwise
\* distinct, len(Library.books) = len(Library.indexes), the collection and
\* by_isbn hold the same ISBNs, and remove_book_event on an empty library
\* changes nothing.
C19_SimulatorKeepsLibraryConsistent ==
    /\ [](/\ ret.outcome = "ok"
          /\ \A j, k \in 1..Len(books) : j # k => books[j].isbn # books[k].isbn
          /\ Len(books) = Cardinality(DOMAIN indexes.by_isbn)
          /\ IsbnsIn(books) = DOMAIN indexes.by_isbn)
    /\ [][(ret'.op = "remove_book_event" /\ books = <<>>) =>
            (books' = books /\ indexes' = indexes /\ ret'.outcome = "ok")]_vars

\* C19 witness: remove_book_event has run twice in a row and the second
\* call, on the library the first had emptied, removed nothing.
C19_Witness ==
    /\ ret.op = "remove_book_event" /\ ret.value = <<>> /\ ret.repeat
    /\ books = <<>>


\* the elements of bs at the positions in idx, in the order of bs
KeptSeq(bs, idx) ==
    [n \in 1..Cardinality(idx) |->
        bs[CHOOSE j \in idx : Cardinality({k \in idx : k <= j}) = n]]

\* C13 as stated: A + B is a new collection holding A's elements in A's
\* order followed by, in B's order, every element of B whose ISBN is not
\* present in A; A and B are left unchanged.
C13_ConcatKeepsAllOfBNotInA ==
    [][ret'.op = "A.concat" =>
        LET A == ListOf(heap, refs, "A")
            B == ListOf(heap, refs, ret'.isbn)
        IN  /\ ListOf(heap', refs', "sum") =
                    A \o KeptSeq(B, {j \in 1..Len(B) : B[j].isbn \notin IsbnsIn(A)})
            /\ ListOf(heap', refs', "A") = A
            /\ ListOf(heap', refs', ret'.isbn) = B
            /\ refs'["sum"] \notin {refs'["A"], refs'["B"]}]_vars

\* C13 amended: A + B is a new collection holding A's elements in A's order
\* followed by, in B's order, the elements of B whose ISBN is neither present
\* in A nor carried by an earlier element of B; A and B are left unchanged.
C13_ConcatKeepsFirstOfEachNewIsbn ==
    [][ret'.op = "A.concat" =>
        LET A == ListOf(heap, refs, "A")
            B == ListOf(heap, refs, ret'.isbn)
            first == {j \in 1..Len(B) :
                        /\ B[j].isbn \notin IsbnsIn(A)
                        /\ \A k \in 1..(j - 1) : B[k].isbn # B[j].isbn}
        IN  /\ ListOf(heap', refs', "sum") = A \o KeptSeq(B, first)
            /\ ListOf(heap', refs', "A") = A
            /\ ListOf(heap', refs', ret'.isbn) = B
            /\ refs'["sum"] \notin {refs'["A"], refs'["B"]}]_vars

\* A + B was computed where A is not empty and B carries twice an ISBN that
\* A does not hold: the sum holds A and one element more
C13_Witness ==
    /\ ret.op = "A.concat" /\ ret.isbn = "B"
    /\ LET A == ListOf(heap, refs, "A")
           B == ListOf(heap, refs, "B")
       IN  /\ A # <<>>
           /\ Len(ListOf(heap, refs, "sum")) = Len(A) + 1
           /\ \E j, k \in 1..Len(B) : j < k /\ B[j].isbn = B[k].isbn
           /\ IsbnsIn(B) \cap IsbnsIn(A) = {}

\* C14: len(A + B) <= len(A) + len(B), and every ISBN occurring in A + B
\* occurs in A or in B.
C14_ConcatBounded ==
    [][ret'.op = "A.concat" =>
        LET A == ListOf(heap, refs, "A")
            B == ListOf(heap, refs, ret'.isbn)
            S == ListOf(heap', refs', "sum")
        IN  /\ Len(S) <= Len(A) + Len(B)
            /\ IsbnsIn(S) \subseteq IsbnsIn(A) \cup IsbnsIn(B)]_vars

\* A + B was computed and is shorter than len(A) + len(B) although B
\* contributed an element
C14_Witness ==
    /\ ret.op = "A.concat" /\ ret.isbn = "B"
    /\ Len(ListOf(heap, refs, "sum")) > Len(ListOf(heap, refs, "A"))
    /\ Len(ListOf(heap, refs, "sum")) < Len(ListOf(heap, refs, "A")) + Len(ListOf(heap, refs, "B"))

\* the contents of the list `n` refers to stay as they are over a step;
\* nothing to keep while `n` refers to no list yet
Kept(n) == refs[n] # "none" => ListOf(heap', refs', n) = ListOf(heap, refs, n)

\* C17: add and remove on the collection returned by A[i:j], and append and
\* pop on the list returned by A.snapshot(), leave A's contents unchanged;
\* add and remove on A leave the slice collection and the snapshot returned
\* earlier unchanged; A may be empty and the bounds may lie outside A.
C17_SliceAndSnapshotNeverAlias ==
    [][/\ ret'.op \in {"slice.add", "slice.remove", "snap.append", "snap.pop"} => Kept("A")
       /\ ret'.op \in {"A.add", "A.remove"} => Kept("slice") /\ Kept("snap")]_vars

\* the snapshot of a non-empty A was emptied by pop while a slice of A is
\* held, and A, the slice and the snapshot hold three different contents
C17_Witness ==
    /\ ret.op = "snap.pop"
    /\ refs["slice"] # "none"
    /\ ListOf(heap, refs, "A") # <<>>
    /\ ListOf(heap, refs, "snap") = <<>>
    /\ ListOf(heap, refs, "slice") \notin {<<>>, ListOf(heap, refs, "A")}

\* C16: two runs that start from equal collections and draw the same values
\* have removed the same books in the same order as far as both have drawn,
\* and hold equal collections whenever they have drawn equally often; each
\* successful pop_random removes one element, the one at the index drawn,
\* and returns it.
C16_PopRandomDeterministic ==
    /\ [](\A r, s \in {"A", "B"} :
            /\ gen.pos[r] <= gen.pos[s] =>
                    gen.removed[r] = SubSeq(gen.removed[s], 1, gen.pos[r])
            /\ gen.pos[r] = gen.pos[s] => ListOf(heap, refs, r) = ListOf(heap, refs, s))
    /\ [][\A run \in {"A", "B"} :
            ret'.op = PopOf(run) /\ ret'.outcome = "ok" =>
                LET bs == ListOf(heap, refs, run)
                    draw == gen'.tape[gen'.pos[run]]
                IN  /\ gen'.pos[run] = gen.pos[run] + 1
                    /\ ret'.value = <<bs[draw + 1]>>
                    /\ ListOf(heap', refs', run) =
                            SubSeq(bs, 1, draw) \o SubSeq(bs, draw + 2, Len(bs))]_vars

\* both runs have drawn twice, the first draw was the last index, and two
\* different books were removed
C16_Witness ==
    /\ ret.op = "B.pop_random" /\ ret.outcome = "ok"
    /\ gen.pos["A"] = 2 /\ gen.pos["B"] = 2
    /\ gen.tape[1] = 1
    /\ gen.removed["A"][1] # gen.removed["A"][2]

====
